---- MODULE Spec2Model ----
(***************************************************************************)
(* TfIdfTransformer (gensim/sklearn_api/tfidf.py): the scikit-learn style  *)
(* wrapper around TfidfModel.  The wrapper (constructor, fit, transform)   *)
(* is modelled from its source; TfidfModel itself (scheme resolution,      *)
(* corpus statistics, weighting) is not part of the file and is modelled   *)
(* from the specification, sections 4.1 to 4.4.                            *)
(*                                                                         *)
(* Numbers are fixed point, in thousandths: 1000 stands for 1.0.           *)
(***************************************************************************)
EXTENDS Integers, Sequences, FiniteSets, TLC

VARIABLES
    gensim_model,   \* self.gensim_model: None or the fitted TfidfModel
    id2word, dictionary, wlocal, wglobal, normalize, smartirs, slope, pivot,
                    \* the configuration attributes set by __init__
    last,           \* the most recent call on the engine: [op, arg, out]
    fitted_with,    \* history: corpus and parameters of the last successful fit
    nsets,          \* history: number of attribute assignments made so far
    f_pc, f_obj,    \* fitting thread: position, the TfidfModel under construction
    t_pc, t_docs, t_i, t_out, t_used
                    \* transforming thread: position, its local docs, loop index,
                    \* the results so far, the model object read for each of them

engine == <<gensim_model, id2word, dictionary, wlocal, wglobal, normalize,
            smartirs, slope, pivot>>
history == <<fitted_with, nsets>>
threads == <<f_pc, f_obj, t_pc, t_docs, t_i, t_out, t_used>>
vars == <<engine, last, history, threads>>

(***************************************************************************)
(* Bounds of the model.                                                    *)
(***************************************************************************)
MaxTerm == 2    \* term ids are 0..MaxTerm
MaxDocs == 2    \* a corpus holds at most MaxDocs documents
MaxSets == 1    \* attribute assignments per behaviour of SpecCfg

TermIds == 0..MaxTerm

(***************************************************************************)
(* Python values.  A value is a record of one shape, so that a list of     *)
(* tuples (a document) and a list of lists (a corpus) can be told apart    *)
(* the way isinstance(docs[0], tuple) does.                                *)
(***************************************************************************)
None == [kind |-> "None", id |-> 0, val |-> 0, items |-> <<>>]
Pair(i, v) == [kind |-> "tuple", id |-> i, val |-> v, items |-> <<>>]
PyList(s) == [kind |-> "list", id |-> 0, val |-> 0, items |-> s]
PyInt(n) == [kind |-> "int", id |-> n, val |-> 0, items |-> <<>>]
PyFloat(x) == [kind |-> "float", id |-> 0, val |-> x, items |-> <<>>]

Return(v) == [kind |-> "return", value |-> v, exc |-> "-"]
Raise(e) == [kind |-> "raise", value |-> None, exc |-> e]

SeqsUpTo(S, n) == UNION {[1..k -> S] : k \in 0..n}

(***************************************************************************)
(* Inputs.  Documents are bag-of-words lists of (term id, count) tuples.   *)
(***************************************************************************)
EmptyDoc == PyList(<<>>)
DocLow == PyList(<<Pair(0, 1), Pair(1, 2)>>)
DocHigh == PyList(<<Pair(1, 1), Pair(MaxTerm, 2)>>)
DocLast == PyList(<<Pair(MaxTerm, 1)>>)

Docs == {DocLow, DocHigh}
PlainCorpora == {PyList(s) : s \in SeqsUpTo(Docs, MaxDocs)}
Corpora == PlainCorpora \cup {PyList(<<EmptyDoc>>), PyList(<<EmptyDoc, DocLow>>)}

Malformed == {PyInt(5), PyList(<<PyInt(5)>>), PyList(<<Pair(0, 1), DocLow>>),
              PyList(<<DocLow, Pair(0, 1)>>)}
TransformInputs ==
    Corpora \cup {DocLow, DocHigh, DocLast, PyList(<<DocLast, DocLow>>)} \cup Malformed

(***************************************************************************)
(* Fixed-point arithmetic.                                                 *)
(***************************************************************************)
Max(a, b) == IF a >= b THEN a ELSE b

\* 1000 * ln(n) for the small integers the bounded inputs produce
LnTable == <<0, 693, 1099, 1386, 1609, 1792, 1946, 2079, 2197, 2303>>
Ln(n) == LnTable[n]

\* 1000 * ln(1 + ln(tf)) for the term frequencies of the inputs
Ln1pLnTable == <<0, 527, 741>>

RECURSIVE SqrtBetween(_, _, _)
SqrtBetween(n, lo, hi) ==
    IF lo >= hi THEN lo
    ELSE LET mid == (lo + hi + 1) \div 2
         IN IF mid * mid <= n THEN SqrtBetween(n, mid, hi)
            ELSE SqrtBetween(n, lo, mid - 1)
\* floor of the square root, for n < 2^30
ISqrt(n) == SqrtBetween(n, 0, 32767)

RECURSIVE SumSeq(_)
SumSeq(s) == IF s = <<>> THEN 0 ELSE Head(s) + SumSeq(Tail(s))

RECURSIVE MaxSeq(_)
MaxSeq(s) == IF s = <<>> THEN 0 ELSE Max(Head(s), MaxSeq(Tail(s)))

(***************************************************************************)
(* 4.1 SchemeResolver.  A mnemonic is a sequence of letters.               *)
(***************************************************************************)
LocalCodes == {"b", "n", "t", "a", "l", "d", "L"}
GlobalCodes == {"x", "n", "f", "t", "p"}
NormCodes == {"x", "n", "c", "u", "b"}

InvalidScheme == [local |-> "?", global |-> "?", norm |-> "?", override |-> "?"]

resolve(mnemonic) ==
    IF \/ Len(mnemonic) \notin {3, 4}
       \/ mnemonic[1] \notin LocalCodes
       \/ mnemonic[2] \notin GlobalCodes
       \/ mnemonic[3] \notin NormCodes
       \/ (Len(mnemonic) = 4 /\ mnemonic[4] \notin LocalCodes)
    THEN InvalidScheme
    ELSE [local |-> mnemonic[1], global |-> mnemonic[2], norm |-> mnemonic[3],
          override |-> IF Len(mnemonic) = 4 THEN mnemonic[4] ELSE "n"]

(***************************************************************************)
(* 4.2 WeightFunctions.                                                    *)
(***************************************************************************)
\* local weight of a term of frequency tf in a document whose frequencies are tfs
LocalWeight(code, tf, tfs) ==
    IF tf <= 0 THEN 0
    ELSE CASE code = "b" -> 1000
           [] code \in {"n", "t"} -> 1000 * tf
           [] code = "a" -> 500 + (500 * tf) \div MaxSeq(tfs)
           [] code = "l" -> 1000 + Ln(tf)
           [] code = "d" -> 1000 + Ln1pLnTable[tf]
           [] code = "L" -> ((1000 + Ln(tf)) * 1000)
                                \div (1000 + Ln(SumSeq(tfs)) - Ln(Len(tfs)))

\* global weight of a term found in df of the n documents; 0 for a term never seen
GlobalWeight(code, df, n) ==
    IF df = 0 THEN 0
    ELSE CASE code \in {"x", "n"} -> 1000
           [] code = "f" -> Ln(n) - Ln(df)
           [] code = "t" -> Ln(n + 1) - Ln(df)
           [] code = "p" -> IF n - df <= 0 THEN 0 ELSE Max(0, Ln(n - df) - Ln(df))

\* cosine normalization; an all-zero vector is left unchanged
Cosine(ws) ==
    LET norm == ISqrt(SumSeq([k \in 1..Len(ws) |-> ws[k] * ws[k]]))
    IN IF norm = 0 THEN ws ELSE [k \in 1..Len(ws) |-> (ws[k] * 1000) \div norm]

\* pivoted normalization: each weight is rescaled by 1 / ((1-s)*p + s*L)
Pivoted(ws, p, s, length) ==
    LET den == ((1000 - s) * p + s * length) \div 1000
    IN IF den = 0 THEN ws ELSE [k \in 1..Len(ws) |-> (ws[k] * 1000) \div den]

(***************************************************************************)
(* 4.3 CorpusStatistics (fit phase).                                       *)
(***************************************************************************)
DocTermIds(doc) == {doc.items[k].id : k \in 1..Len(doc.items)}
DocLength(doc) == SumSeq([k \in 1..Len(doc.items) |-> doc.items[k].val])

\* one pass over the corpus: the number of documents each term appears in
ScanDfs(corpus) ==
    [t \in TermIds |->
        Cardinality({k \in 1..Len(corpus.items) : t \in DocTermIds(corpus.items[k])})]

\* the statistics of a corpus, in the form a Dictionary carries them
ScanCorpus(corpus) ==
    [num_docs |-> Len(corpus.items),
     num_nnz |-> SumSeq([k \in 1..Len(corpus.items) |->
                            Cardinality(DocTermIds(corpus.items[k]))]),
     num_pos |-> SumSeq([k \in 1..Len(corpus.items) |-> DocLength(corpus.items[k])]),
     dfs |-> ScanDfs(corpus)]

\* a precomputed document-frequency table handed in as `dictionary`
Dictionary1 ==
    [kind |-> "Dictionary"] @@ ScanCorpus(PyList(<<DocLow, DocHigh>>))

\* the mean document length: distinct terms for 'u', tokens for 'b'
AutoPivot(stats, norm) ==
    IF norm = "u" THEN (1000 * stats.num_nnz) \div stats.num_docs
    ELSE (1000 * stats.num_pos) \div stats.num_docs

\* TfidfModel(corpus=..., id2word=..., ...): the fitted model, or the error raised
TfidfModel(corpus, prm) ==
    LET scheme == resolve(prm.smartirs)
        stats == IF prm.dictionary = None THEN ScanCorpus(corpus)
                 ELSE [f \in {"num_docs", "num_nnz", "num_pos", "dfs"} |->
                          prm.dictionary[f]]
        pivoted == scheme.norm \in {"u", "b"}
        gcode == IF prm.wglobal = "df2idf" THEN scheme.global ELSE "n"
    IN IF scheme = InvalidScheme THEN Raise("InvalidSchemeError")
       ELSE IF pivoted /\ prm.pivot = None /\ stats.num_docs = 0
       THEN Raise("EmptyCorpusError")
       ELSE Return(
           [kind |-> "TfidfModel",
            num_docs |-> stats.num_docs,
            dfs |-> stats.dfs,
            idfs |-> [t \in TermIds |-> GlobalWeight(gcode, stats.dfs[t], stats.num_docs)],
            scheme |-> scheme,
            wlocal |-> prm.wlocal,
            wglobal |-> prm.wglobal,
            normalize |-> prm.normalize,
            id2word |-> prm.id2word,
            pivot |-> IF ~pivoted THEN None
                      ELSE IF prm.pivot = None
                      THEN PyFloat(AutoPivot(stats, scheme.norm))
                      ELSE prm.pivot,
            slope |-> prm.slope])

(***************************************************************************)
(* 4.4 TfidfEngine (transform phase): model[bow].                          *)
(***************************************************************************)
RECURSIVE InsertById(_, _)
InsertById(p, s) ==
    IF s = <<>> THEN <<p>>
    ELSE IF p.id <= Head(s).id THEN <<p>> \o s
    ELSE <<Head(s)>> \o InsertById(p, Tail(s))

RECURSIVE SortById(_)
SortById(s) == IF s = <<>> THEN <<>> ELSE InsertById(Head(s), SortById(Tail(s)))

NonZero(p) == p.val # 0

Weigh(model, pairs) ==
    LET sorted == SortById(pairs)
        n == Len(sorted)
        tfs == [k \in 1..n |-> sorted[k].val]
        lw(k) == IF model.wlocal = "identity"
                 THEN LocalWeight(model.scheme.local, tfs[k], tfs)
                 ELSE Ln(tfs[k] + 1)
        idf(k) == IF sorted[k].id \in DOMAIN model.idfs
                  THEN model.idfs[sorted[k].id] ELSE 0
        raw == SelectSeq([k \in 1..n |-> Pair(sorted[k].id, (lw(k) * idf(k)) \div 1000)],
                         NonZero)
        ws == [k \in 1..Len(raw) |-> raw[k].val]
        code == model.scheme.norm
        normed == IF ~model.normalize \/ code \in {"x", "n"} THEN ws
                  ELSE IF code = "c" THEN Cosine(ws)
                  ELSE IF code = "u"
                  THEN Pivoted(ws, model.pivot.val, model.slope, 1000 * n)
                  ELSE Pivoted(ws, model.pivot.val, model.slope, 1000 * SumSeq(tfs))
    IN SelectSeq([k \in 1..Len(raw) |-> Pair(raw[k].id, normed[k])], NonZero)

\* model[bow]: the weighted document, or the error a non-document raises
TfidfGetItem(model, bow) ==
    IF bow.kind # "list" THEN Raise("TypeError")
    ELSE IF \E k \in 1..Len(bow.items) : bow.items[k].kind # "tuple"
    THEN Raise("TypeError")
    ELSE Return(PyList(Weigh(model, bow.items)))

(***************************************************************************)
(* TfIdfTransformer: the configuration attributes.                         *)
(***************************************************************************)
DefaultSlope == 650

Nfc == <<"n", "f", "c">>
Nnn == <<"n", "n", "n">>
Nnu == <<"n", "n", "u">>
Xyz9 == <<"x", "y", "z", "9">>

Id2Word1 == [kind |-> "dict", id |-> 0, val |-> 0, items |-> <<"human", "graph">>]

Params ==
    [id2word |-> id2word, dictionary |-> dictionary, wlocal |-> wlocal,
     wglobal |-> wglobal, normalize |-> normalize, smartirs |-> smartirs,
     slope |-> slope, pivot |-> pivot]

\* __init__'s defaults
Defaults ==
    [id2word |-> None, dictionary |-> None, wlocal |-> "identity",
     wglobal |-> "df2idf", normalize |-> TRUE, smartirs |-> Nfc,
     slope |-> DefaultSlope, pivot |-> None]

\* the values an attribute is given in this model
AttrValues(name) ==
    CASE name = "id2word" -> {None, Id2Word1}
      [] name = "dictionary" -> {None, Dictionary1}
      [] name = "wlocal" -> {"identity", "log1p"}
      [] name = "wglobal" -> {"df2idf", "unit"}
      [] name = "normalize" -> BOOLEAN
      [] name = "smartirs" -> {Nfc, Nnn, Nnu, Xyz9}
      [] name = "slope" -> {DefaultSlope, 250}
      [] name = "pivot" -> {None, PyFloat(2000)}

AttrNames == DOMAIN Defaults
\* the attributes assigned in Spec, and the values they are given there
MainAttrs == {"smartirs", "dictionary"}
MainValues(name) == IF name = "smartirs" THEN {Nfc, Nnu, Xyz9} ELSE AttrValues(name)

Self == [kind |-> "TfIdfTransformer", id |-> 0, val |-> 0, items |-> <<>>]
Call(op, arg, out) == [op |-> op, arg |-> arg, out |-> out]

SetParams(prm) ==
    /\ id2word' = prm.id2word
    /\ dictionary' = prm.dictionary
    /\ wlocal' = prm.wlocal
    /\ wglobal' = prm.wglobal
    /\ normalize' = prm.normalize
    /\ smartirs' = prm.smartirs
    /\ slope' = prm.slope
    /\ pivot' = prm.pivot

KeepParams ==
    UNCHANGED <<id2word, dictionary, wlocal, wglobal, normalize, smartirs, slope, pivot>>

\* TfIdfTransformer(): the engine after construction
Init ==
    /\ gensim_model = None
    /\ id2word = Defaults.id2word
    /\ dictionary = Defaults.dictionary
    /\ wlocal = Defaults.wlocal
    /\ wglobal = Defaults.wglobal
    /\ normalize = Defaults.normalize
    /\ smartirs = Defaults.smartirs
    /\ slope = Defaults.slope
    /\ pivot = Defaults.pivot
    /\ last = Call("init", None, Return(None))
    /\ fitted_with = None
    /\ nsets = 0
    /\ f_pc = "idle"
    /\ f_obj = None
    /\ t_pc = "idle"
    /\ t_docs = None
    /\ t_i = 0
    /\ t_out = <<>>
    /\ t_used = <<>>

\* setattr as it would be if the fitted model followed the attributes: assigning
\* normalize, wlocal, wglobal, slope or id2word also rebinds it on the model
setattr_live(name, value) ==
    /\ SetParams([Params EXCEPT ![name] = value])
    /\ gensim_model' =
          IF gensim_model # None
             /\ name \in {"normalize", "wlocal", "wglobal", "slope", "id2word"}
          THEN [gensim_model EXCEPT ![name] = value]
          ELSE gensim_model
    /\ last' = Call("setattr", None, Return(None))

\* engine.<name> = value: a constructor argument other than the default, or a
\* later assignment to the public attribute
setattr(name, value) ==
    /\ SetParams([Params EXCEPT ![name] = value])
    /\ UNCHANGED gensim_model
    /\ last' = Call("setattr", None, Return(None))

(***************************************************************************)
(* fit(X)                                                                  *)
(***************************************************************************)
\* fit as an incremental update: the new statistics are added to the old ones
fit_incremental(X) ==
    LET built == TfidfModel(X, Params)
        merged == IF gensim_model = None THEN built.value
                  ELSE [built.value EXCEPT
                          !.num_docs = @ + gensim_model.num_docs,
                          !.dfs = [t \in TermIds |-> @[t] + gensim_model.dfs[t]]]
    IN /\ gensim_model' = IF built.kind = "return" THEN merged ELSE gensim_model
       /\ KeepParams
       /\ last' = Call("fit", X,
                       IF built.kind = "return" THEN Return(Self) ELSE built)

\* fit dropping the old model before the new one is built
fit_clearing(X) ==
    LET built == TfidfModel(X, Params)
    IN /\ gensim_model' = IF built.kind = "return" THEN built.value ELSE None
       /\ KeepParams
       /\ last' = Call("fit", X,
                       IF built.kind = "return" THEN Return(Self) ELSE built)

fit(X) ==
    LET built == TfidfModel(X, Params)
    IN /\ gensim_model' = IF built.kind = "return" THEN built.value ELSE gensim_model
       /\ KeepParams
       /\ last' = Call("fit", X,
                       IF built.kind = "return" THEN Return(Self) ELSE built)

(***************************************************************************)
(* transform(docs)                                                         *)
(***************************************************************************)
\* the index of the first document whose weighting raises, 0 if none does
RECURSIVE FirstRaise(_, _)
FirstRaise(outs, k) ==
    IF k > Len(outs) THEN 0
    ELSE IF outs[k].kind = "raise" THEN k
    ELSE FirstRaise(outs, k + 1)

\* transform looking at docs[0] before the fitted-state check
transform_result_late_check(model, docs) ==
    IF docs.kind # "list" THEN Raise("TypeError")
    ELSE IF docs.items = <<>> THEN Raise("IndexError")
    ELSE IF model = None THEN Raise("NotFittedError")
    ELSE LET corpus == IF docs.items[1].kind = "tuple" THEN <<docs>> ELSE docs.items
             outs == [k \in 1..Len(corpus) |-> TfidfGetItem(model, corpus[k])]
             bad == FirstRaise(outs, 1)
         IN IF bad # 0 THEN outs[bad]
            ELSE Return(PyList([k \in 1..Len(corpus) |-> outs[k].value]))

\* transform giving a single document back as a single weighted document
transform_result_same_shape(model, docs) ==
    IF model = None THEN Raise("NotFittedError")
    ELSE IF docs.kind # "list" THEN Raise("TypeError")
    ELSE IF docs.items = <<>> THEN Raise("IndexError")
    ELSE LET single == docs.items[1].kind = "tuple"
             corpus == IF single THEN <<docs>> ELSE docs.items
             outs == [k \in 1..Len(corpus) |-> TfidfGetItem(model, corpus[k])]
             bad == FirstRaise(outs, 1)
         IN IF bad # 0 THEN outs[bad]
            ELSE IF single THEN Return(outs[1].value)
            ELSE Return(PyList([k \in 1..Len(corpus) |-> outs[k].value]))

\* transform without the wrapping of a single document
transform_result_nowrap(model, docs) ==
    IF model = None THEN Raise("NotFittedError")
    ELSE IF docs.kind # "list" THEN Raise("TypeError")
    ELSE IF docs.items = <<>> THEN Raise("IndexError")
    ELSE LET corpus == docs.items
             outs == [k \in 1..Len(corpus) |-> TfidfGetItem(model, corpus[k])]
             bad == FirstRaise(outs, 1)
         IN IF bad # 0 THEN outs[bad]
            ELSE Return(PyList([k \in 1..Len(corpus) |-> outs[k].value]))

\* transform handing the documents back without applying the model
transform_result_unweighted(model, docs) ==
    IF model = None THEN Raise("NotFittedError")
    ELSE IF docs.kind # "list" THEN Raise("TypeError")
    ELSE IF docs.items = <<>> THEN Raise("IndexError")
    ELSE LET corpus == IF docs.items[1].kind = "tuple" THEN <<docs>> ELSE docs.items
             outs == [k \in 1..Len(corpus) |-> TfidfGetItem(model, corpus[k])]
             bad == FirstRaise(outs, 1)
         IN IF bad # 0 THEN outs[bad]
            ELSE Return(PyList(corpus))

\* what transform(docs) returns or raises on an engine holding `model`
transform_result(model, docs) ==
    IF model = None THEN Raise("NotFittedError")
    ELSE IF docs.kind # "list" THEN Raise("TypeError")
    ELSE IF docs.items = <<>> THEN Raise("IndexError")
    ELSE LET corpus == IF docs.items[1].kind = "tuple" THEN <<docs>> ELSE docs.items
             outs == [k \in 1..Len(corpus) |-> TfidfGetItem(model, corpus[k])]
             bad == FirstRaise(outs, 1)
         IN IF bad # 0 THEN outs[bad]
            ELSE Return(PyList([k \in 1..Len(corpus) |-> outs[k].value]))

\* transform rebinding the model's normalize while it weighs the documents
transform_touching(docs) ==
    /\ last' = Call("transform", docs, transform_result(gensim_model, docs))
    /\ gensim_model' = IF gensim_model = None THEN None
                       ELSE [gensim_model EXCEPT !.normalize = FALSE]
    /\ KeepParams

transform(docs) ==
    /\ last' = Call("transform", docs, transform_result(gensim_model, docs))
    /\ UNCHANGED gensim_model
    /\ KeepParams

(***************************************************************************)
(* The engine used from one thread: every call runs to completion.         *)
(***************************************************************************)
Next ==
    \/ \E X \in Corpora : fit(X) /\ UNCHANGED <<history, threads>>
    \/ \E docs \in TransformInputs : transform(docs) /\ UNCHANGED <<history, threads>>
    \/ \E name \in MainAttrs : \E value \in MainValues(name) :
          setattr(name, value) /\ UNCHANGED <<history, threads>>

Spec == Init /\ [][Next]_vars

(***************************************************************************)
(* The same engine with every attribute open to assignment, and the        *)
(* corpus and parameters of the last successful fit kept as history.       *)
(***************************************************************************)
CfgInputs == {EmptyDoc, DocLow, DocLast, PyList(<<DocLow, DocHigh>>)}

NextCfg ==
    \/ \E X \in PlainCorpora :
          /\ fit(X)
          /\ fitted_with' = IF last'.out.kind = "return"
                            THEN [corpus |-> X, params |-> Params,
                                  refit |-> fitted_with # None
                                            /\ fitted_with.corpus # X]
                            ELSE fitted_with
          /\ UNCHANGED <<nsets, threads>>
    \/ \E docs \in CfgInputs : transform(docs) /\ UNCHANGED <<history, threads>>
    \/ \E name \in AttrNames : \E value \in AttrValues(name) :
          /\ nsets < MaxSets
          /\ value # Params[name]
          /\ setattr(name, value)
          /\ nsets' = nsets + 1
          /\ UNCHANGED <<fitted_with, threads>>

SpecCfg == Init /\ [][NextCfg]_vars

(***************************************************************************)
(* Two threads on one engine: one calls fit, the other transform.  The     *)
(* steps are the points at which the other thread can run: fit evaluates   *)
(* the TfidfModel(...) call, then stores the attribute; transform reads    *)
(* self.gensim_model for the check and again for every document of the     *)
(* list comprehension.                                                     *)
(***************************************************************************)
ConcCorpora == {PyList(s) : s \in [1..MaxDocs -> Docs]}
ConcInputs == {EmptyDoc, DocLow, PyList(<<DocLow, DocHigh>>)}

\* the TfidfModel object before its constructor has gathered the statistics
Unbuilt(model) ==
    [model EXCEPT !.num_docs = 0,
                  !.dfs = [t \in TermIds |-> 0],
                  !.idfs = [t \in TermIds |-> 0]]

\* fit, line 132: the call TfidfModel(...) starts
FitBegin(X) ==
    /\ f_pc = "idle"
    /\ LET built == TfidfModel(X, Params)
       IN IF built.kind = "raise"
          THEN UNCHANGED <<f_pc, f_obj>>
          ELSE /\ f_pc' = "constructing"
               /\ f_obj' = [arg |-> X, model |-> Unbuilt(built.value)]
    /\ UNCHANGED <<engine, last, history, t_pc, t_docs, t_i, t_out, t_used>>

\* fit, line 132: the call TfidfModel(...) returns the finished model
FitBuilt ==
    /\ f_pc = "constructing"
    /\ f_obj' = [f_obj EXCEPT !.model = TfidfModel(f_obj.arg, Params).value]
    /\ f_pc' = "constructed"
    /\ UNCHANGED <<engine, last, history, t_pc, t_docs, t_i, t_out, t_used>>

\* the attribute bound to the model object before its constructor has finished
FitAssign_early ==
    /\ f_pc \in {"constructing", "constructed"}
    /\ gensim_model' = f_obj.model
    /\ f_pc' = IF f_pc = "constructed" THEN "idle" ELSE f_pc
    /\ f_obj' = IF f_pc = "constructed" THEN None ELSE f_obj
    /\ KeepParams
    /\ UNCHANGED <<last, history, t_pc, t_docs, t_i, t_out, t_used>>

\* fit, line 132: self.gensim_model = <the finished model>; return self
FitAssign ==
    /\ f_pc = "constructed"
    /\ gensim_model' = f_obj.model
    /\ f_pc' = "idle"
    /\ f_obj' = None
    /\ KeepParams
    /\ UNCHANGED <<last, history, t_pc, t_docs, t_i, t_out, t_used>>

\* transform(docs) is called
TransformCall(docs) ==
    /\ t_pc = "idle"
    /\ t_pc' = "check"
    /\ t_docs' = docs
    /\ t_i' = 0
    /\ t_out' = <<>>
    /\ t_used' = <<>>
    /\ UNCHANGED <<engine, last, history, f_pc, f_obj>>

\* lines 153-156: if self.gensim_model is None: raise NotFittedError
TransformCheck ==
    /\ t_pc = "check"
    /\ IF gensim_model = None
       THEN /\ t_pc' = "idle"
            /\ last' = Call("transform", t_docs, Raise("NotFittedError"))
       ELSE /\ t_pc' = "shape"
            /\ UNCHANGED last
    /\ UNCHANGED <<engine, history, f_pc, f_obj, t_docs, t_i, t_out, t_used>>

\* lines 159-160: if isinstance(docs[0], tuple): docs = [docs]
TransformShape ==
    /\ t_pc = "shape"
    /\ IF t_docs.kind # "list"
       THEN /\ t_pc' = "idle"
            /\ last' = Call("transform", t_docs, Raise("TypeError"))
            /\ UNCHANGED <<t_docs, t_i>>
       ELSE IF t_docs.items = <<>>
       THEN /\ t_pc' = "idle"
            /\ last' = Call("transform", t_docs, Raise("IndexError"))
            /\ UNCHANGED <<t_docs, t_i>>
       ELSE /\ t_pc' = "loop"
            /\ t_docs' = IF t_docs.items[1].kind = "tuple"
                         THEN PyList(<<t_docs>>) ELSE t_docs
            /\ t_i' = 1
            /\ UNCHANGED last
    /\ UNCHANGED <<engine, history, f_pc, f_obj, t_out, t_used>>

\* line 161, one turn of the comprehension: self.gensim_model[doc]
TransformStep ==
    /\ t_pc = "loop"
    /\ t_i <= Len(t_docs.items)
    /\ LET weighted == TfidfGetItem(gensim_model, t_docs.items[t_i])
       IN IF weighted.kind = "raise"
          THEN /\ t_pc' = "idle"
               /\ last' = Call("transform", t_docs, weighted)
               /\ UNCHANGED <<t_i, t_out, t_used>>
          ELSE /\ t_out' = Append(t_out, weighted.value)
               /\ t_used' = Append(t_used, gensim_model)
               /\ t_i' = t_i + 1
               /\ UNCHANGED <<t_pc, last>>
    /\ UNCHANGED <<engine, history, f_pc, f_obj, t_docs>>

\* line 161: the list is returned
TransformReturn ==
    /\ t_pc = "loop"
    /\ t_i > Len(t_docs.items)
    /\ t_pc' = "idle"
    /\ last' = Call("transform", t_docs, Return(PyList(t_out)))
    /\ UNCHANGED <<engine, history, f_pc, f_obj, t_docs, t_i, t_out, t_used>>

NextConc ==
    \/ \E X \in ConcCorpora : FitBegin(X)
    \/ FitBuilt
    \/ FitAssign
    \/ \E docs \in ConcInputs : TransformCall(docs)
    \/ TransformCheck
    \/ TransformShape
    \/ TransformStep
    \/ TransformReturn

SpecConc == Init /\ [][NextConc]_vars

(***************************************************************************)
(* Properties.                                                             *)
(***************************************************************************)
Fitted == gensim_model # None
Transformed == last.op = "transform"
Returned == last.out.kind = "return"

\* "document": a list whose first element is a tuple; "corpus": one whose first
\* element is a list
Shape(v) ==
    IF v.kind # "list" \/ v.items = <<>> THEN "other"
    ELSE IF v.items[1].kind = "tuple" THEN "document"
    ELSE IF v.items[1].kind = "list" THEN "corpus"
    ELSE "other"

IsWeightedDoc(v) ==
    v.kind = "list" /\ \A k \in 1..Len(v.items) : v.items[k].kind = "tuple"

\* the term ids of the weighted documents of a returned corpus
OutputTermIds(v) ==
    UNION {DocTermIds(v.items[k]) : k \in 1..Len(v.items)}

\* the model a fresh engine holds after one fit on the corpus of the last
\* successful fit, with the parameters the engine had at that fit
FreshModel ==
    IF fitted_with = None THEN None
    ELSE TfidfModel(fitted_with.corpus, fitted_with.params).value

\* C1: a transform call on an engine whose gensim_model is None raises
\* NotFittedError whatever the input (empty and malformed inputs included),
\* returns nothing, and leaves the engine unfitted.
C1_NotFittedBeforeInput ==
    [][(gensim_model = None /\ last'.op = "transform")
          => (last'.out = Raise("NotFittedError") /\ gensim_model' = None)]_vars

C1_Witness ==
    /\ Transformed
    /\ gensim_model = None
    /\ last.arg = EmptyDoc
    /\ last.out = Raise("NotFittedError")

\* C2, as claimed: a transform that returns gives its result in the shape of its
\* input, a single weighted document for a single document.
C2_SameShape ==
    (Transformed /\ Returned) => Shape(last.out.value) = Shape(last.arg)

\* C2, amended: a transform that returns always returns a corpus, a list of
\* weighted documents: one for each document of a corpus input, and a list of
\* one weighted document for a single document.
C2_AlwaysCorpus ==
    (Transformed /\ Returned) =>
        /\ last.out.value.kind = "list"
        /\ \A k \in 1..Len(last.out.value.items) : IsWeightedDoc(last.out.value.items[k])
        /\ Len(last.out.value.items) =
              IF Shape(last.arg) = "document" THEN 1 ELSE Len(last.arg.items)

C2_Witness ==
    /\ Transformed
    /\ Returned
    /\ last.arg = DocLow
    /\ Shape(last.out.value) = "corpus"
    /\ Len(last.out.value.items) = 1
    /\ last.out.value.items[1].items # <<>>

\* C3: on a fitted engine, transform of the empty document returns an empty
\* vector and raises nothing.
C3_EmptyDocumentReturns ==
    (Transformed /\ Fitted /\ last.arg = EmptyDoc) =>
        /\ Returned
        /\ last.out.value \in {PyList(<<>>), PyList(<<PyList(<<>>)>>)}

\* C4: whatever fits and transforms came before, the engine holds exactly the
\* model of a fresh engine fitted once on the corpus of the last successful fit
\* (and is unfitted if there was none), and transform returns what that fresh
\* engine returns.
C4_RefitReplaces ==
    /\ gensim_model = FreshModel
    /\ Transformed => last.out = transform_result(FreshModel, last.arg)

C4_Witness ==
    /\ Transformed
    /\ Returned
    /\ fitted_with # None
    /\ fitted_with.refit
    /\ fitted_with.corpus = PyList(<<DocHigh>>)
    /\ last.arg = PyList(<<DocLow, DocHigh>>)

\* C5: a transform call changes neither the fitted model nor any configuration
\* attribute, and its result is the function of the model and the input alone,
\* so the same input gives the same output until the next fit.
C5_TransformFrame ==
    [][last'.op = "transform"
          => /\ gensim_model' = gensim_model
             /\ Params' = Params
             /\ last'.out = transform_result(gensim_model', last'.arg)]_vars

C5_Witness ==
    /\ Transformed
    /\ Returned
    /\ last.arg = PyList(<<DocHigh, DocLow>>)
    /\ gensim_model.scheme.norm = "u"

\* the terms with a non-zero document frequency in the corpus of the last fit
TermsOfFitCorpus == {t \in TermIds : ScanDfs(fitted_with.corpus)[t] > 0}

\* the terms with a non-zero document frequency in the table the model was
\* built from: the dictionary's when one was configured, else the fit corpus's
TermsOfFitTable ==
    IF fitted_with.params.dictionary = None THEN TermsOfFitCorpus
    ELSE {t \in TermIds : fitted_with.params.dictionary.dfs[t] > 0}

C8_CapturedAtFit ==
    /\ (last.op = "fit" /\ Returned) =>
          /\ fitted_with.params = Params
          /\ gensim_model = TfidfModel(last.arg, Params).value
    /\ (Transformed /\ fitted_with # None) =>
          last.out = transform_result(
                        TfidfModel(fitted_with.corpus, fitted_with.params).value,
                        last.arg)

C8_Witness ==
    /\ Transformed
    /\ Returned
    /\ fitted_with # None
    /\ Params # fitted_with.params
    /\ TfidfModel(fitted_with.corpus, Params).kind = "return"
    /\ last.out # transform_result(TfidfModel(fitted_with.corpus, Params).value, last.arg)

\* C9: on a fitted engine a non-empty single document gives what the corpus of
\* that one document gives, and a corpus gives one weighted document for each
\* of its documents, in their order.
C9_SingleIsCorpusOfOne ==
    (Transformed /\ Fitted) =>
        /\ Shape(last.arg) = "document" =>
              last.out = transform_result(gensim_model, PyList(<<last.arg>>))
        /\ (Shape(last.arg) = "corpus" /\ Returned) =>
              /\ Len(last.out.value.items) = Len(last.arg.items)
              /\ \A k \in 1..Len(last.arg.items) :
                    last.out.value.items[k] =
                        TfidfGetItem(gensim_model, last.arg.items[k]).value

C9_Witness ==
    /\ Transformed
    /\ Returned
    /\ last.arg = DocHigh
    /\ last.out.value.items[1].items # <<>>

\* C10: a fit call that raises leaves the model and every attribute as they
\* were: an unfitted engine stays unfitted, a fitted one keeps its model.
C10_FailedFitKeepsState ==
    [][(last'.op = "fit" /\ last'.out.kind = "raise")
          => (gensim_model' = gensim_model /\ Params' = Params)]_vars

C10_Witness ==
    /\ last.op = "fit"
    /\ last.out = Raise("EmptyCorpusError")
    /\ Fitted

\* the models that completed constructor calls of the fitting thread produce
CompletedModels == {TfidfModel(X, Params).value : X \in ConcCorpora}

\* C7, as claimed: with a fit interleaved, all weighted documents of the corpus
\* a transform call returns are computed from one and the same model.
C7_OneModelPerCall ==
    (t_pc = "idle" /\ Transformed /\ Returned) =>
        \A j, k \in 1..Len(t_used) : t_used[j] = t_used[k]

\* C7, amended: with a fit interleaved, every weighted document of a transform
\* call is computed from the model of a completed fit, never from a model under
\* construction; the documents of one call need not share the model.
C7_CompletedModelPerDocument ==
    /\ \A k \in 1..Len(t_used) :
          /\ t_used[k] \in CompletedModels
          /\ t_out[k] = TfidfGetItem(t_used[k], t_docs.items[k]).value
    /\ (t_pc = "idle" /\ Transformed /\ Returned) => last.out.value.items = t_out

C7_Witness ==
    /\ t_pc = "idle"
    /\ Transformed
    /\ Returned
    /\ Len(t_used) = 2
    /\ t_used[1] # t_used[2]
    /\ last.out.value.items = t_out

====
